---- MODULE Spec2Model ----
(***************************************************************************)
(* The assistance-request orchestrator of project-sage: the request        *)
(* service (internal/request/service.go), its Postgres repository          *)
(* (internal/request/repository.go), and the billing repository it debits  *)
(* through the HTTP billing client.  Every inbound call is handled by its  *)
(* own goroutine; the only shared state is the two databases.              *)
(***************************************************************************)
EXTENDS Integers, Sequences, FiniteSets, TLC

(* ------------------------------ bounds --------------------------------- *)

\* Token balance of the registered paying user at start.
InitTokens == 1

\* Rows the assistance_requests table can hold when the repository is driven
\* directly.
MaxRows == 3

\* Rows the expert_ratings table may hold.
MaxRatings == 2

\* Requests the billing service answers in one run.
MaxBillingCalls == 2

(* ------------------------------ universes ------------------------------ *)

Workers == {"w1", "w2"}
\* Readings of the wall clock time.Now(): an earlier and a later instant.
Times == 0..1
\* Request ids: one per token the paying user holds, and one that no request
\* ever gets.
ReqIds == 1..(InitTokens + 1)
Missing == InitTokens + 1
Experts == {"e1", "e2"}
\* u1 is registered in the users table, u2 is not.
Users == {"u1", "u2"}
Sids == {"CH1"}
Summaries == {"sumA"}
\* Scores a rating submission may carry: five stars, and one more.
Scores == {5, 6}
Min(S) == CHOOSE x \in S : \A y \in S : x <= y

\* The cause carried by an infrastructure failure (driver / transport error).
Cause == "io error"

(* ------------------------------ domain --------------------------------- *)

\* uuid.NullUUID and sql.NullTime with Valid = false.
NullUUID == [Valid |-> FALSE, UUID |-> "nil"]
NullTime == [Valid |-> FALSE, Time |-> 0]
SomeUUID(e) == [Valid |-> TRUE, UUID |-> e]
SomeTime(t) == [Valid |-> TRUE, Time |-> t]

\* domain.AssistanceRequest as the service builds it before the insert.
AssistanceRequestNoSummary(userID, summary, twilioSID) ==
    [RequestID |-> 0, UserID |-> userID, ExpertID |-> NullUUID, Status |-> "",
     LLMSummary |-> "", TwilioConversationSID |-> twilioSID,
     CreatedAt |-> 0, AcceptedAt |-> NullTime, ResolvedAt |-> NullTime]

AssistanceRequest(userID, summary, twilioSID) ==
    [RequestID |-> 0, UserID |-> userID, ExpertID |-> NullUUID, Status |-> "",
     LLMSummary |-> summary, TwilioConversationSID |-> twilioSID,
     CreatedAt |-> 0, AcceptedAt |-> NullTime, ResolvedAt |-> NullTime]

\* fmt.Errorf("ctx: %w", err): an error is the chain of its messages, nil is <<>>.
Nil == <<>>

\* domain.ExpertRating as service.SubmitRating builds it: RatingID is still
\* the zero UUID.
ExpertRating(reqID, userID, expertID, score) ==
    [RatingID |-> 0, RequestID |-> reqID, UserID |-> userID,
     ExpertID |-> expertID, Score |-> score]
WrapDropCause(ctx, err) == <<ctx>>
Wrap(ctx, err) == <<ctx>> \o err
Errorf(msg) == <<msg>>

(* ------------------------------ state ---------------------------------- *)

VARIABLES
    store,      \* assistance_requests: request_id -> row
    balance,    \* users.assistance_token_balance, for the registered users
    now,        \* wall clock
    op,         \* per worker: the service operation it is running
    pc,         \* per worker: the next step of that operation
    args,       \* per worker: the operation's arguments
    req,        \* per worker: the local *domain.AssistanceRequest (<<>> is nil)
    err,        \* per worker: the error the operation returns (<<>> is nil)
    calls,      \* per worker: collaborator calls made so far, with their outcome
    ratings     \* expert_ratings: the set of rows

vars == <<store, balance, now, op, pc, args, req, err, calls, ratings>>

\* pendingAtCall is a history field: whether the request was pending in the
\* store at the moment an AcceptRequest call arrived.
NoArgs == [userID |-> "u1", twilioSID |-> "CH1", requestID |-> 0,
           expertID |-> "nil", summary |-> "", pendingAtCall |-> FALSE,
           score |-> 0, decoded |-> TRUE, malformed |-> FALSE]

Call(name, e) == [name |-> name, ok |-> (e = Nil), err |-> e]

(* ------------------- billing service (collaborator) -------------------- *)

\* billing.postgresRepository.DebitToken: the rows matched by
\*   WHERE user_id = $1 AND assistance_token_balance > 0
DebitMatchesAnyBalance(bal, userID) == {u \in DOMAIN bal : u = userID}

\* WHERE user_id = $1 AND assistance_token_balance >= 0
DebitMatchesNonNegative(bal, userID) ==
    {u \in DOMAIN bal : u = userID /\ bal[u] >= 0}

DebitMatches(bal, userID) ==
    {u \in DOMAIN bal : u = userID /\ bal[u] > 0}

\* SET assistance_token_balance = assistance_token_balance - 1
DebitSetTwo(b) == b - 2

DebitSet(b) == b - 1

\* billing.postgresRepository.DebitToken, dbFault: the query itself failed.
billing_DebitTokenOldBalance(bal, userID, dbFault) ==
    IF dbFault
    THEN [balance |-> bal, newBalance |-> 0,
          err |-> Wrap("database error during debit", Errorf(Cause))]
    ELSE LET rows == DebitMatches(bal, userID) IN
         IF rows = {}
         THEN [balance |-> bal, newBalance |-> 0,
               err |-> Errorf("insufficient funds or user not found")]
         ELSE [balance |-> [u \in DOMAIN bal |->
                              IF u \in rows THEN DebitSet(bal[u]) ELSE bal[u]],
               newBalance |-> bal[userID],
               err |-> Nil]

billing_DebitToken(bal, userID, dbFault) ==
    IF dbFault
    THEN [balance |-> bal, newBalance |-> 0,
          err |-> Wrap("database error during debit", Errorf(Cause))]
    ELSE LET rows == DebitMatches(bal, userID) IN
         IF rows = {}
         THEN [balance |-> bal, newBalance |-> 0,
               err |-> Errorf("insufficient funds or user not found")]
         ELSE [balance |-> [u \in DOMAIN bal |->
                              IF u \in rows THEN DebitSet(bal[u]) ELSE bal[u]],
               newBalance |-> DebitSet(bal[userID]),
               err |-> Nil]

\* billing.postgresRepository.CreditToken:
\*   UPDATE users SET balance = balance + $1 WHERE user_id = $2 RETURNING balance
CreditMatches(bal, userID) == {u \in DOMAIN bal : u = userID}

CreditSet(b, amount) == b + amount

billing_CreditToken(bal, userID, amount, dbFault) ==
    IF dbFault
    THEN [balance |-> bal, newBalance |-> 0,
          err |-> Wrap("database error during credit", Errorf(Cause))]
    ELSE LET rows == CreditMatches(bal, userID) IN
         IF rows = {}
         THEN [balance |-> bal, newBalance |-> 0, err |-> Errorf("user not found")]
         ELSE [balance |-> [u \in DOMAIN bal |->
                              IF u \in rows THEN CreditSet(bal[u], amount)
                              ELSE bal[u]],
               newBalance |-> CreditSet(bal[userID], amount),
               err |-> Nil]

\* billing.Handler.handleDebitToken: the HTTP status it answers with.
handleDebitToken(e) ==
    IF e = Nil THEN 200
    ELSE IF e = Errorf("insufficient funds or user not found") THEN 409
    ELSE 500

\* fmt.Errorf("billing service returned non-200 status: %d", resp.StatusCode)
NonOKStatus(code) ==
    CASE code = 500 -> Errorf("billing service returned non-200 status: 500")
      [] code = 409 -> Errorf("billing service returned non-200 status: 409")
      [] OTHER -> Errorf("billing service returned non-200 status")

\* resp.StatusCode when c.httpClient.Do failed: there is no response.
NoResponse == 0

\* request.httpBillingClient.DebitToken: transport is whether the HTTP round
\* trip itself failed (the request then never reached the billing service).
httpBillingClient_DebitToken(bal, userID, fault) ==
    IF fault = "transport"
    THEN [balance |-> bal, status |-> NoResponse,
          err |-> Wrap("debit request failed", Errorf(Cause))]
    ELSE LET r == billing_DebitToken(bal, userID, fault = "db")
             code == handleDebitToken(r.err) IN
         [balance |-> r.balance, status |-> code,
          err |-> IF code # 200
                  THEN IF code = 409
                       THEN Errorf("insufficient funds")
                       ELSE NonOKStatus(code)
                  ELSE Nil]

(* ------------------------- request HTTP handlers ----------------------- *)

\* err.Error(): the messages of the chain, outermost first, joined by ": ".
RECURSIVE ErrorString(_)
ErrorString(e) ==
    IF Len(e) = 1 THEN Head(e) ELSE Head(e) \o ": " \o ErrorString(Tail(e))

\* request.Handler.handleCreateRequest, after the payload decoded: the answer
\* to the outcome (r, e) of service.CreateRequest.
handleCreateRequestAnyDebitFailure(r, e) ==
    IF e # Nil
    THEN IF Head(e) = "token debit failed"
         THEN [status |-> 402, body |-> "Insufficient assistance tokens"]
         ELSE [status |-> 500, body |-> "Could not create request"]
    ELSE [status |-> 201, body |-> r]

handleCreateRequest(r, e) ==
    IF e # Nil
    THEN IF ErrorString(e) = "token debit failed: insufficient funds"
         THEN [status |-> 402, body |-> "Insufficient assistance tokens"]
         ELSE [status |-> 500, body |-> "Could not create request"]
    ELSE [status |-> 201, body |-> r]

\* request.Handler.handleAcceptRequest, after the payload decoded: the answer
\* to the outcome (r, e) of service.AcceptRequest.
handleAcceptRequestUnwrapped(r, e) ==
    IF e # Nil
    THEN IF ErrorString(e) = "request not found or was already accepted"
         THEN [status |-> 409, body |-> "Request already accepted"]
         ELSE [status |-> 500, body |-> "Could not accept request"]
    ELSE [status |-> 200, body |-> r]

handleAcceptRequest(r, e) ==
    IF e # Nil
    THEN IF ErrorString(e) =
              "could not accept request: request not found or was already accepted"
         THEN [status |-> 409, body |-> "Request already accepted"]
         ELSE [status |-> 500, body |-> "Could not accept request"]
    ELSE [status |-> 200, body |-> r]

\* request.Handler.handleRateRequest: the answer when the payload decoded or
\* not and service.SubmitRating returned e.
handleRateRequest(decoded, e) ==
    IF ~decoded THEN [status |-> 400, body |-> "Invalid payload"]
    ELSE IF e # Nil THEN [status |-> 500, body |-> "Could not submit rating"]
    ELSE [status |-> 200, body |-> "rating received"]

\* request.Handler.handleResolveRequest: likewise for service.ResolveRequest.
handleResolveRequest(decoded, e) ==
    IF ~decoded THEN [status |-> 400, body |-> "Invalid payload"]
    ELSE IF e # Nil THEN [status |-> 500, body |-> "Could not resolve request"]
    ELSE [status |-> 200, body |-> "resolved"]

\* A payload field is text: <<id>> is the text that spells the UUID id,
\* Malformed a text that spells none (an empty or absent field included).
Text(id) == <<id>>
Malformed == <<>>

\* uuid.Parse(s): the id s spells, or the zero UUID and an error.
uuid_Parse(s, zero) ==
    IF s = Malformed THEN [id |-> zero, err |-> Errorf("invalid UUID")]
    ELSE [id |-> s[1], err |-> Nil]

\* uuid.New() standing in for the authenticated caller: an identity no
\* registered user has, and one no expert was assigned under.
PlaceholderUser == "u2"
PlaceholderExpert == "e2"

(* ----------------------- request store (repository) -------------------- *)

\* postgresRepository.CreateRequest: sets the server-side fields on the struct
\* and inserts the row; expert_id, accepted_at and resolved_at are not among
\* the inserted columns and stay NULL.
postgresRepository_CreateRequest(st, r, id, t, dbFault) ==
    LET r2 == [r EXCEPT !.RequestID = id, !.Status = "pending", !.CreatedAt = t]
        row == [RequestID |-> r2.RequestID, UserID |-> r2.UserID,
                ExpertID |-> NullUUID, Status |-> r2.Status,
                LLMSummary |-> r2.LLMSummary,
                TwilioConversationSID |-> r2.TwilioConversationSID,
                CreatedAt |-> r2.CreatedAt,
                AcceptedAt |-> NullTime, ResolvedAt |-> NullTime] IN
    IF dbFault
    THEN [store |-> st, req |-> r2,
          err |-> Wrap("could not insert request", Errorf(Cause))]
    ELSE [store |-> (id :> row) @@ st, req |-> r2, err |-> Nil]

\* postgresRepository.AcceptRequest: the rows matched by
\*   WHERE request_id = $3 AND status = 'pending'
AcceptWhereAnyStatus(st, requestID) ==
    {id \in DOMAIN st : id = requestID}

AcceptWhereNotResolved(st, requestID) ==
    {id \in DOMAIN st : id = requestID /\ st[id].Status # "resolved"}

AcceptWhere(st, requestID) ==
    {id \in DOMAIN st : id = requestID /\ st[id].Status = "pending"}

\* SET status = 'active', expert_id = $1, accepted_at = $2
AcceptSetNoTimestamp(row, expertID, t) ==
    [row EXCEPT !.Status = "active", !.ExpertID = SomeUUID(expertID)]

AcceptSetNoExpert(row, expertID, t) ==
    [row EXCEPT !.Status = "active", !.AcceptedAt = SomeTime(t)]

AcceptSet(row, expertID, t) ==
    [row EXCEPT !.Status = "active", !.ExpertID = SomeUUID(expertID),
                !.AcceptedAt = SomeTime(t)]

\* res of ExecContext when the statement failed: there is no result.
NoResult == -1

postgresRepository_AcceptRequest(st, requestID, expertID, t, dbFault) ==
    IF dbFault
    THEN [store |-> st, rowsAffected |-> NoResult,
          err |-> Wrap("database error accepting request", Errorf(Cause))]
    ELSE LET rows == AcceptWhere(st, requestID)
             rowsAffected == Cardinality(rows) IN
         IF rowsAffected = 0
         THEN [store |-> st, rowsAffected |-> rowsAffected,
               err |-> Errorf("request not found or was already accepted")]
         ELSE [store |-> [id \in DOMAIN st |->
                            IF id \in rows THEN AcceptSet(st[id], expertID, t)
                            ELSE st[id]],
               rowsAffected |-> rowsAffected,
               err |-> Nil]

\* postgresRepository.ResolveRequest: the rows matched by
\*   WHERE request_id = $2 AND status = 'active'
ResolveWhereNotResolved(st, requestID) ==
    {id \in DOMAIN st : id = requestID /\ st[id].Status # "resolved"}

\* WHERE request_id = $2 AND status IN ('active', 'resolved')
ResolveWhereAccepted(st, requestID) ==
    {id \in DOMAIN st :
        id = requestID /\ st[id].Status \in {"active", "resolved"}}

ResolveWhere(st, requestID) ==
    {id \in DOMAIN st : id = requestID /\ st[id].Status = "active"}

\* SET status = 'resolved', resolved_at = $1
ResolveSetNoTimestamp(row, t) == [row EXCEPT !.Status = "resolved"]

\* SET status = 'resolved', resolved_at = $1, accepted_at = $1
ResolveSetRestamp(row, t) ==
    [row EXCEPT !.Status = "resolved", !.ResolvedAt = SomeTime(t),
                !.AcceptedAt = SomeTime(t)]

ResolveSet(row, t) ==
    [row EXCEPT !.Status = "resolved", !.ResolvedAt = SomeTime(t)]

postgresRepository_ResolveRequest(st, requestID, t, dbFault) ==
    IF dbFault
    THEN [store |-> st,
          err |-> Wrap("database error resolving request", Errorf(Cause))]
    ELSE LET rows == ResolveWhere(st, requestID)
             rowsAffected == Cardinality(rows) IN
         IF rowsAffected = 0
         THEN [store |-> st,
               err |-> Errorf("request not found or was not active")]
         ELSE [store |-> [id \in DOMAIN st |->
                            IF id \in rows THEN ResolveSet(st[id], t)
                            ELSE st[id]],
               err |-> Nil]

\* postgresRepository.CreateRating: sets the primary key on the struct and
\* inserts the row.
postgresRepository_CreateRatingOncePerRequest(rs, rating, id, dbFault) ==
    IF dbFault
    THEN [ratings |-> rs, err |-> Wrap("could not insert rating", Errorf(Cause))]
    ELSE IF \E x \in rs : x.RequestID = rating.RequestID
    THEN [ratings |-> rs, err |-> Nil]
    ELSE [ratings |-> rs \cup {[rating EXCEPT !.RatingID = id]}, err |-> Nil]

postgresRepository_CreateRating(rs, rating, id, dbFault) ==
    IF dbFault
    THEN [ratings |-> rs, err |-> Wrap("could not insert rating", Errorf(Cause))]
    ELSE [ratings |-> rs \cup {[rating EXCEPT !.RatingID = id]}, err |-> Nil]

\* postgresRepository.GetRequestByID: the full row, or "request not found".
postgresRepository_GetRequestByIDNoRowsGeneric(st, requestID, dbFault) ==
    IF dbFault
    THEN [req |-> Nil, err |-> Wrap("could not get request", Errorf(Cause))]
    ELSE IF requestID \notin DOMAIN st
    THEN [req |-> Nil,
          err |-> Wrap("could not get request", Errorf("sql: no rows in result set"))]
    ELSE [req |-> <<st[requestID]>>, err |-> Nil]

postgresRepository_GetRequestByID(st, requestID, dbFault) ==
    IF dbFault
    THEN [req |-> Nil, err |-> Wrap("could not get request", Errorf(Cause))]
    ELSE IF requestID \notin DOMAIN st
    THEN [req |-> Nil, err |-> Errorf("request not found")]
    ELSE [req |-> <<st[requestID]>>, err |-> Nil]

\* postgresRepository.GetPendingRequests: the rows matched by
\*   WHERE status = 'pending'
PendingWhereNotResolved(st) ==
    {id \in DOMAIN st : st[id].Status # "resolved"}

PendingWhere(st) ==
    {id \in DOMAIN st : st[id].Status = "pending"}

\* ORDER BY created_at ASC: q lists the row ids with created_at never
\* decreasing.  There is no second sort key, so rows with equal created_at may
\* come in any order.
OrderByDesc(st, q) ==
    \A i, j \in 1..Len(q) : i < j => st[q[i]].CreatedAt >= st[q[j]].CreatedAt

OrderBy(st, q) ==
    \A i, j \in 1..Len(q) : i < j => st[q[i]].CreatedAt <= st[q[j]].CreatedAt

\* rows.Scan(&req.RequestID, &req.UserID, &req.TwilioConversationSID,
\* &req.CreatedAt) into a zero domain.AssistanceRequest.
ScanPending(row) ==
    [AssistanceRequest(row.UserID, "", row.TwilioConversationSID)
        EXCEPT !.RequestID = row.RequestID, !.CreatedAt = row.CreatedAt]

\* Every answer the query can give on st: one per order the database may
\* return the matching rows in.
postgresRepository_GetPendingRequests(st, dbFault) ==
    IF dbFault
    THEN {[reqs |-> <<>>,
           err |-> Wrap("could not query pending requests", Errorf(Cause))]}
    ELSE LET rows == PendingWhere(st)
             n == Cardinality(rows)
             orders == {q \in [1..n -> rows] :
                          /\ \A i, j \in 1..n : i # j => q[i] # q[j]
                          /\ OrderBy(st, q)} IN
         {[reqs |-> [i \in 1..n |-> ScanPending(st[q[i]])], err |-> Nil] :
              q \in orders}

(* ------------------------- orchestrator: steps ------------------------- *)

\* time.Now().UTC(): the clock never runs backwards; any amount of time may
\* have passed since the last reading.
Clock == {t \in Times : t >= now}

Idle(w) == op[w] = "idle"

\* uuid.New(): an id no row has yet.  Ids are opaque, so the least unused one
\* stands for whichever fresh id the generator returns.
NewUUID(st) ==
    LET free == ReqIds \ (DOMAIN st \cup {Missing}) IN
    CHOOSE id \in free : \A j \in free : id <= j

\* The request ids a caller can name: those of existing requests (read from the
\* pending queue or from an earlier answer), or one that names no request.
Nameable == DOMAIN store \cup {Missing}

\* Where service.CreateRequest goes after each collaborator call returned e.
AfterDebitTokenIgnoreErr(e) == "Summarize"

AfterDebitTokenSkipSummarize(e) == IF e # Nil THEN "return" ELSE "CreateRequest"

AfterDebitTokenRetry(e) == IF e # Nil THEN "DebitToken" ELSE "Summarize"

AfterDebitToken(e) == IF e # Nil THEN "return" ELSE "Summarize"

AfterSummarizeIgnoreErr(e) == "CreateRequest"

AfterSummarize(e) == IF e # Nil THEN "return" ELSE "CreateRequest"

AfterCreateRequestIgnoreErr(e) == "RemoveBot"

AfterCreateRequest(e) == IF e # Nil THEN "return" ELSE "RemoveBot"

\* RemoveBot's error is logged and dropped: what CreateRequest returns after it.
AfterRemoveBotFatal(r, e) ==
    IF e # Nil THEN [req |-> Nil, err |-> Wrap("could not remove bot", e)]
    ELSE [req |-> r, err |-> Nil]

AfterRemoveBot(r, e) == [req |-> r, err |-> Nil]

\* Where service.AcceptRequest goes after each call returned e.
AfterAcceptRequestIgnoreErr(e) == "GetRequestByID"

\* Only a failed statement ends the call; "already accepted" goes on.
AfterAcceptRequestConflictGoesOn(e) ==
    IF e # Nil /\ e[Len(e)] = Cause THEN "return" ELSE "GetRequestByID"

AfterAcceptRequest(e) == IF e # Nil THEN "return" ELSE "GetRequestByID"

AfterGetRequestByID(e) == IF e # Nil THEN "return" ELSE "AddExpert"

\* AddExpert's error is fatal: what AcceptRequest returns after it.
AfterAddExpertNonFatal(r, e) == [req |-> r, err |-> Nil]

AfterAddExpert(r, e) ==
    IF e # Nil THEN [req |-> Nil, err |-> Wrap("failed to add expert to chat", e)]
    ELSE [req |-> r, err |-> Nil]

\* The arguments of s.chatClient.AddExpert: the chat session of the re-fetched
\* request and the caller's expert id.
AddExpertArgsNoSid(r, expertID) == [sid |-> "", expertID |-> expertID]

AddExpertArgs(r, expertID) ==
    [sid |-> r[1].TwilioConversationSID, expertID |-> expertID]

\* service.ResolveRequest: passes requestID on to the repository; expertID is
\* not used.
service_ResolveRequestOwnExpert(st, requestID, expertID, t, dbFault) ==
    IF requestID \in DOMAIN st /\ st[requestID].ExpertID # SomeUUID(expertID)
    THEN [store |-> st, err |-> Errorf("request not found or was not active")]
    ELSE postgresRepository_ResolveRequest(st, requestID, t, dbFault)

service_ResolveRequest(st, requestID, expertID, t, dbFault) ==
    postgresRepository_ResolveRequest(st, requestID, t, dbFault)

\* service.SubmitRating: builds the rating and passes it to the repository.
service_SubmitRating(rs, reqID, userID, expertID, score, id, dbFault) ==
    postgresRepository_CreateRating(
        rs, ExpertRating(reqID, userID, expertID, score), id, dbFault)

\* A worker picks up an inbound CreateRequest(userID, twilioSID).
CallCreateRequest(w, userID, twilioSID) ==
    /\ Idle(w)
    /\ op' = [op EXCEPT ![w] = "CreateRequest"]
    /\ pc' = [pc EXCEPT ![w] = "DebitToken"]
    /\ args' = [args EXCEPT ![w] = [NoArgs EXCEPT !.userID = userID,
                                                   !.twilioSID = twilioSID]]
    /\ UNCHANGED <<store, balance, now, req, err, calls, ratings>>

\* s.billingClient.DebitToken(ctx, userID)
CreateRequest_DebitToken(w) ==
    /\ op[w] = "CreateRequest" /\ pc[w] = "DebitToken"
    /\ \E fault \in {"none", "transport", "db"} :
         LET r == httpBillingClient_DebitToken(balance, args[w].userID, fault) IN
         /\ balance' = r.balance
         /\ calls' = [calls EXCEPT ![w] = Append(@, Call("DebitToken", r.err) @@ [status |-> r.status])]
         /\ err' = [err EXCEPT ![w] =
                      IF r.err # Nil THEN Wrap("token debit failed", r.err) ELSE @]
         /\ pc' = [pc EXCEPT ![w] = AfterDebitToken(r.err)]
    /\ UNCHANGED <<store, now, op, args, req, ratings>>

\* s.llmClient.Summarize(ctx, twilioSID): a summary text, or a failure.
CreateRequest_Summarize(w) ==
    /\ op[w] = "CreateRequest" /\ pc[w] = "Summarize"
    /\ \E summary \in Summaries \cup {""} :
         LET e == IF summary = "" THEN Errorf(Cause) ELSE Nil IN
         /\ calls' = [calls EXCEPT ![w] = Append(@, Call("Summarize", e))]
         /\ args' = [args EXCEPT ![w].summary = summary]
         /\ err' = [err EXCEPT ![w] =
                      IF e # Nil THEN Wrap("could not summarize chat", e) ELSE @]
         /\ pc' = [pc EXCEPT ![w] = AfterSummarize(e)]
    /\ UNCHANGED <<store, balance, now, op, req, ratings>>

\* req := &domain.AssistanceRequest{...}; s.repo.CreateRequest(ctx, req)
CreateRequest_CreateRequest(w) ==
    /\ op[w] = "CreateRequest" /\ pc[w] = "CreateRequest"
    /\ ReqIds \ (DOMAIN store \cup {Missing}) # {}
    /\ \E t \in Clock, dbFault \in BOOLEAN :
         LET r == postgresRepository_CreateRequest(store,
                     AssistanceRequest(args[w].userID, args[w].summary,
                                       args[w].twilioSID),
                     NewUUID(store), t, dbFault) IN
         /\ now' = t
         /\ store' = r.store
         /\ calls' = [calls EXCEPT ![w] = Append(@, Call("CreateRequest", r.err))]
         /\ req' = [req EXCEPT ![w] = IF r.err # Nil THEN Nil ELSE <<r.req>>]
         /\ err' = [err EXCEPT ![w] =
                      IF r.err # Nil THEN Wrap("could not save request", r.err) ELSE @]
         /\ pc' = [pc EXCEPT ![w] = AfterCreateRequest(r.err)]
    /\ UNCHANGED <<balance, op, args, ratings>>

\* s.chatClient.RemoveBot(ctx, twilioSID); return req, nil
CreateRequest_RemoveBot(w) ==
    /\ op[w] = "CreateRequest" /\ pc[w] = "RemoveBot"
    /\ \E chatFault \in BOOLEAN :
         LET e == IF chatFault THEN Errorf(Cause) ELSE Nil
             ret == AfterRemoveBot(req[w], e) IN
         /\ calls' = [calls EXCEPT ![w] = Append(@, Call("RemoveBot", e))]
         /\ req' = [req EXCEPT ![w] = ret.req]
         /\ err' = [err EXCEPT ![w] = ret.err]
         /\ pc' = [pc EXCEPT ![w] = "return"]
    /\ UNCHANGED <<store, balance, now, op, args, ratings>>

\* A worker picks up an inbound AcceptRequest(requestID, expertID).
CallAcceptRequest(w, requestID, expertID) ==
    /\ Idle(w)
    /\ requestID \in Nameable
    /\ op' = [op EXCEPT ![w] = "AcceptRequest"]
    /\ pc' = [pc EXCEPT ![w] = "AcceptRequest"]
    /\ args' = [args EXCEPT ![w] =
                   [NoArgs EXCEPT !.requestID = requestID,
                                  !.expertID = expertID,
                                  !.pendingAtCall =
                                      (requestID \in DOMAIN store
                                         /\ store[requestID].Status = "pending")]]
    /\ UNCHANGED <<store, balance, now, req, err, calls, ratings>>

\* s.repo.AcceptRequest(ctx, requestID, expertID)
AcceptRequest_AcceptRequest(w) ==
    /\ op[w] = "AcceptRequest" /\ pc[w] = "AcceptRequest"
    /\ \E t \in Clock, dbFault \in BOOLEAN :
         LET r == postgresRepository_AcceptRequest(store, args[w].requestID,
                                                   args[w].expertID, t, dbFault) IN
         /\ now' = t
         /\ store' = r.store
         /\ calls' = [calls EXCEPT ![w] = Append(@, Call("AcceptRequest", r.err)
                                   @@ [rowsAffected |-> r.rowsAffected])]
         /\ err' = [err EXCEPT ![w] =
                      IF r.err # Nil THEN Wrap("could not accept request", r.err) ELSE @]
         /\ pc' = [pc EXCEPT ![w] = AfterAcceptRequest(r.err)]
    /\ UNCHANGED <<balance, op, args, req, ratings>>

\* s.repo.GetRequestByID(ctx, requestID)
AcceptRequest_GetRequestByID(w) ==
    /\ op[w] = "AcceptRequest" /\ pc[w] = "GetRequestByID"
    /\ \E dbFault \in BOOLEAN :
         LET r == postgresRepository_GetRequestByID(store, args[w].requestID, dbFault) IN
         /\ calls' = [calls EXCEPT ![w] = Append(@, Call("GetRequestByID", r.err))]
         /\ req' = [req EXCEPT ![w] = r.req]
         /\ err' = [err EXCEPT ![w] =
                      IF r.err # Nil THEN Wrap("could not fetch accepted request", r.err)
                      ELSE @]
         /\ pc' = [pc EXCEPT ![w] = AfterGetRequestByID(r.err)]
    /\ UNCHANGED <<store, balance, now, op, args, ratings>>

\* s.chatClient.AddExpert(ctx, req.TwilioConversationSID, expertID)
AcceptRequest_AddExpert(w) ==
    /\ op[w] = "AcceptRequest" /\ pc[w] = "AddExpert"
    /\ \E chatFault \in BOOLEAN :
         LET e == IF chatFault THEN Errorf(Cause) ELSE Nil
             ret == AfterAddExpert(req[w], e) IN
         /\ calls' = [calls EXCEPT ![w] =
                        Append(@, Call("AddExpert", e)
                                    @@ AddExpertArgs(req[w], args[w].expertID))]
         /\ req' = [req EXCEPT ![w] = ret.req]
         /\ err' = [err EXCEPT ![w] = ret.err]
         /\ pc' = [pc EXCEPT ![w] = "return"]
    /\ UNCHANGED <<store, balance, now, op, args, ratings>>

\* service.ResolveRequest(requestID, expertID): one call to the repository,
\* which is a single UPDATE.
ResolveRequest(w, requestID, expertID) ==
    /\ Idle(w)
    /\ requestID \in Nameable
    /\ \E t \in Clock, dbFault \in BOOLEAN :
         LET r == service_ResolveRequest(store, requestID, expertID, t, dbFault) IN
         /\ now' = t
         /\ store' = r.store
         /\ calls' = [calls EXCEPT ![w] = <<Call("ResolveRequest", r.err)>>]
         /\ err' = [err EXCEPT ![w] = r.err]
    /\ op' = [op EXCEPT ![w] = "ResolveRequest"]
    /\ pc' = [pc EXCEPT ![w] = "return"]
    /\ args' = [args EXCEPT ![w] = [NoArgs EXCEPT !.requestID = requestID,
                                                   !.expertID = expertID]]
    /\ UNCHANGED <<balance, req, ratings>>

\* uuid.New() for a new rating.
NewRatingID(rs) == Cardinality(rs) + 1

\* service.SubmitRating(reqID, userID, expertID, score): one call to the
\* repository, which is a single INSERT.
SubmitRating(w, reqID, userID, expertID, score) ==
    /\ Idle(w)
    /\ reqID \in Nameable
    /\ Cardinality(ratings) < MaxRatings
    /\ \E dbFault \in BOOLEAN :
         LET r == service_SubmitRating(ratings, reqID, userID, expertID, score,
                                       NewRatingID(ratings), dbFault) IN
         /\ ratings' = r.ratings
         /\ calls' = [calls EXCEPT ![w] = <<Call("CreateRating", r.err)>>]
         /\ err' = [err EXCEPT ![w] = r.err]
    /\ op' = [op EXCEPT ![w] = "SubmitRating"]
    /\ pc' = [pc EXCEPT ![w] = "return"]
    /\ args' = [args EXCEPT ![w] = [NoArgs EXCEPT !.requestID = reqID,
                                                   !.userID = userID,
                                                   !.expertID = expertID,
                                                   !.score = score]]
    /\ UNCHANGED <<store, balance, now, req>>

\* POST /request/rate: Handler.handleRateRequest -> service.SubmitRating.
\* decoded: the body is JSON of the payload's shape.
Api_handleRateRequest(w, request_id, expert_id, score, decoded) ==
    /\ Idle(w)
    /\ request_id \in {Text(id) : id \in Nameable} \cup {Malformed}
    /\ decoded => Cardinality(ratings) < MaxRatings
    /\ LET reqID == uuid_Parse(request_id, NoArgs.requestID).id
           expertID == uuid_Parse(expert_id, NoArgs.expertID).id IN
       /\ IF ~decoded
          THEN UNCHANGED <<ratings, calls, err>>
          ELSE \E dbFault \in BOOLEAN :
                 LET r == service_SubmitRating(ratings, reqID, PlaceholderUser,
                                               expertID, score,
                                               NewRatingID(ratings), dbFault) IN
                 /\ ratings' = r.ratings
                 /\ calls' = [calls EXCEPT ![w] = <<Call("SubmitRating", r.err)>>]
                 /\ err' = [err EXCEPT ![w] = r.err]
       /\ args' = [args EXCEPT ![w] =
                      [NoArgs EXCEPT !.requestID = reqID,
                                     !.userID = PlaceholderUser,
                                     !.expertID = expertID,
                                     !.score = score,
                                     !.decoded = decoded,
                                     !.malformed = decoded /\
                                         (request_id = Malformed
                                            \/ expert_id = Malformed)]]
    /\ op' = [op EXCEPT ![w] = "handleRateRequest"]
    /\ pc' = [pc EXCEPT ![w] = "return"]
    /\ UNCHANGED <<store, balance, now, req>>

\* POST /request/resolve: Handler.handleResolveRequest -> service.ResolveRequest.
Api_handleResolveRequest(w, request_id, decoded) ==
    /\ Idle(w)
    /\ request_id \in {Text(id) : id \in Nameable} \cup {Malformed}
    /\ LET reqID == uuid_Parse(request_id, NoArgs.requestID).id IN
       /\ IF ~decoded
          THEN UNCHANGED <<store, now, calls, err>>
          ELSE \E t \in Clock, dbFault \in BOOLEAN :
                 LET r == service_ResolveRequest(store, reqID, PlaceholderExpert,
                                                 t, dbFault) IN
                 /\ now' = t
                 /\ store' = r.store
                 /\ calls' = [calls EXCEPT ![w] = <<Call("ResolveRequest", r.err)>>]
                 /\ err' = [err EXCEPT ![w] = r.err]
       /\ args' = [args EXCEPT ![w] =
                      [NoArgs EXCEPT !.requestID = reqID,
                                     !.expertID = PlaceholderExpert,
                                     !.decoded = decoded,
                                     !.malformed = decoded /\ request_id = Malformed]]
    /\ op' = [op EXCEPT ![w] = "handleResolveRequest"]
    /\ pc' = [pc EXCEPT ![w] = "return"]
    /\ UNCHANGED <<balance, req, ratings>>

\* POST /request/accept: Handler.handleAcceptRequest, up to its call of
\* service.AcceptRequest, whose steps follow.
Api_handleAcceptRequest(w, request_id, decoded) ==
    /\ Idle(w)
    /\ request_id \in {Text(id) : id \in Nameable} \cup {Malformed}
    /\ LET reqID == uuid_Parse(request_id, NoArgs.requestID).id IN
       args' = [args EXCEPT ![w] =
                  [NoArgs EXCEPT !.requestID = reqID,
                                 !.expertID = PlaceholderExpert,
                                 !.pendingAtCall =
                                     (reqID \in DOMAIN store
                                        /\ store[reqID].Status = "pending"),
                                 !.decoded = decoded,
                                 !.malformed = decoded /\ request_id = Malformed]]
    /\ op' = [op EXCEPT ![w] = IF decoded THEN "AcceptRequest"
                                ELSE "handleAcceptRequest"]
    /\ pc' = [pc EXCEPT ![w] = IF decoded THEN "AcceptRequest" ELSE "return"]
    /\ UNCHANGED <<store, balance, now, req, err, calls, ratings>>

\* The operation has returned (req, err) to its caller; the worker is free again.
Return(w) ==
    /\ pc[w] = "return"
    /\ op' = [op EXCEPT ![w] = "idle"]
    /\ pc' = [pc EXCEPT ![w] = "idle"]
    /\ args' = [args EXCEPT ![w] = NoArgs]
    /\ req' = [req EXCEPT ![w] = Nil]
    /\ err' = [err EXCEPT ![w] = Nil]
    /\ calls' = [calls EXCEPT ![w] = <<>>]
    /\ UNCHANGED <<store, balance, now, ratings>>

(* ---------------- the repository driven directly ----------------------- *)

\* Each repository method is a single SQL statement, so whatever concurrent
\* callers do to the table is some sequence of these statements; Caller issues
\* that sequence.
StoreIds == 1..MaxRows
Caller == CHOOSE w \in Workers : TRUE

\* uuid.New() for a new row.  Ids are opaque and never ordered by the code;
\* the greatest unused one stands for whichever id the generator returns, so
\* that id order and creation order differ.
NewRowID(st) ==
    LET free == StoreIds \ DOMAIN st IN
    CHOOSE id \in free : \A j \in free : id >= j

\* repo.CreateRequest(ctx, req)
Repo_CreateRequest(w, userID, twilioSID, summary) ==
    /\ Idle(w)
    /\ StoreIds \ DOMAIN store # {}
    /\ \E t \in Clock, dbFault \in BOOLEAN :
         LET r == postgresRepository_CreateRequest(store,
                     AssistanceRequest(userID, summary, twilioSID),
                     NewRowID(store), t, dbFault) IN
         /\ now' = t
         /\ store' = r.store
         /\ req' = [req EXCEPT ![w] = IF r.err # Nil THEN Nil ELSE <<r.req>>]
         /\ err' = [err EXCEPT ![w] = r.err]
    /\ op' = [op EXCEPT ![w] = "repo.CreateRequest"]
    /\ pc' = [pc EXCEPT ![w] = "return"]
    /\ args' = [args EXCEPT ![w] = [NoArgs EXCEPT !.userID = userID,
                                                   !.twilioSID = twilioSID,
                                                   !.summary = summary]]
    /\ UNCHANGED <<balance, calls, ratings>>

\* repo.AcceptRequest(ctx, requestID, expertID)
Repo_AcceptRequest(w, requestID, expertID) ==
    /\ Idle(w)
    /\ requestID \in DOMAIN store
    /\ \E t \in Clock, dbFault \in BOOLEAN :
         LET r == postgresRepository_AcceptRequest(store, requestID, expertID,
                                                   t, dbFault) IN
         /\ now' = t
         /\ store' = r.store
         /\ err' = [err EXCEPT ![w] = r.err]
    /\ op' = [op EXCEPT ![w] = "repo.AcceptRequest"]
    /\ pc' = [pc EXCEPT ![w] = "return"]
    /\ args' = [args EXCEPT ![w] = [NoArgs EXCEPT !.requestID = requestID,
                                                   !.expertID = expertID]]
    /\ UNCHANGED <<balance, req, calls, ratings>>

\* repo.GetRequestByID(ctx, requestID), for any id a caller may hold.
Repo_GetRequestByID(w, requestID) ==
    /\ Idle(w)
    /\ \E dbFault \in BOOLEAN :
         LET r == postgresRepository_GetRequestByID(store, requestID, dbFault) IN
         /\ req' = [req EXCEPT ![w] = r.req]
         /\ err' = [err EXCEPT ![w] = r.err]
         /\ calls' = [calls EXCEPT ![w] = <<Call("GetRequestByID", r.err)>>]
    /\ op' = [op EXCEPT ![w] = "repo.GetRequestByID"]
    /\ pc' = [pc EXCEPT ![w] = "return"]
    /\ args' = [args EXCEPT ![w] = [NoArgs EXCEPT !.requestID = requestID]]
    /\ UNCHANGED <<store, balance, now, ratings>>

\* service.GetPendingRequests: a pass-through to the repository's SELECT.  The
\* returned slice is kept in req.
GetPendingRequests(w) ==
    /\ Idle(w)
    /\ \E dbFault \in BOOLEAN :
         \E r \in postgresRepository_GetPendingRequests(store, dbFault) :
             /\ req' = [req EXCEPT ![w] = r.reqs]
             /\ err' = [err EXCEPT ![w] = r.err]
             /\ calls' = [calls EXCEPT ![w] = <<Call("GetPendingRequests", r.err)>>]
    /\ op' = [op EXCEPT ![w] = "GetPendingRequests"]
    /\ pc' = [pc EXCEPT ![w] = "return"]
    /\ UNCHANGED <<store, balance, now, args, ratings>>

(* ------------------- the billing service's endpoints ------------------- *)

\* The users table of the billing service holds Payers; the callers also name
\* a user it does not hold.
Payers == {"u1", "u3"}
BillingUsers == Payers \cup Users
\* Amounts a credit request may carry.
Amounts == 0..1
\* Balances are capped so that credits cannot grow them without end.
MaxBalance == InitTokens + 1
\* The requests answered so far, over all callers.
BillingCalls == UNION {{<<w, i>> : i \in 1..Len(calls[w])} : w \in Workers}
BillingWorkers == {w \in Workers : Cardinality(BillingCalls) < MaxBillingCalls}

\* One answered request of the billing service, as its caller saw it.
BillingCall(name, userID, amount, status, e, newBalance) ==
    [name |-> name, userID |-> userID, amount |-> amount, status |-> status,
     err |-> e, newBalance |-> newBalance, ok |-> (status = 200)]

\* POST /token/debit: Handler.handleDebitToken -> service.DebitToken ->
\* repository.DebitToken.  wellFormed: the body decodes and user_id parses.
Billing_handleDebitToken(w, userID, wellFormed) ==
    /\ w \in BillingWorkers
    /\ \E dbFault \in BOOLEAN :
         LET r == billing_DebitToken(balance, userID, dbFault)
             status == IF ~wellFormed THEN 400 ELSE handleDebitToken(r.err) IN
         /\ balance' = IF wellFormed THEN r.balance ELSE balance
         /\ calls' = [calls EXCEPT ![w] =
                        Append(@, BillingCall("debit", userID, 1, status,
                                   IF wellFormed THEN r.err ELSE Nil,
                                   IF status = 200 THEN r.newBalance ELSE 0))]
    /\ UNCHANGED <<store, now, op, pc, args, req, err, ratings>>

\* POST /token/add: Handler.handleCreditToken -> service.CreditToken ->
\* repository.CreditToken.
Billing_handleCreditToken(w, userID, amount, wellFormed) ==
    /\ w \in BillingWorkers
    /\ userID \in DOMAIN balance => balance[userID] + amount <= MaxBalance
    /\ \E dbFault \in BOOLEAN :
         LET valid == wellFormed /\ ~(amount <= 0)
             r == billing_CreditToken(balance, userID, amount, dbFault)
             status == IF ~valid THEN 400
                       ELSE IF r.err # Nil THEN 500 ELSE 200 IN
         /\ balance' = IF valid THEN r.balance ELSE balance
         /\ calls' = [calls EXCEPT ![w] =
                        Append(@, BillingCall("credit", userID, amount, status,
                                   IF valid THEN r.err ELSE Nil,
                                   IF status = 200 THEN r.newBalance ELSE 0))]
    /\ UNCHANGED <<store, now, op, pc, args, req, err, ratings>>

(* --------------------------- specification ----------------------------- *)

Init ==
    /\ store = <<>>
    /\ balance = [u \in {"u1"} |-> InitTokens]
    /\ now = 0
    /\ op = [w \in Workers |-> "idle"]
    /\ pc = [w \in Workers |-> "idle"]
    /\ args = [w \in Workers |-> NoArgs]
    /\ req = [w \in Workers |-> Nil]
    /\ err = [w \in Workers |-> Nil]
    /\ calls = [w \in Workers |-> <<>>]
    /\ ratings = {}

Next ==
    \/ \E w \in Workers, u \in Users, sid \in Sids : CallCreateRequest(w, u, sid)
    \/ \E w \in Workers : CreateRequest_DebitToken(w)
    \/ \E w \in Workers : CreateRequest_Summarize(w)
    \/ \E w \in Workers : CreateRequest_CreateRequest(w)
    \/ \E w \in Workers : CreateRequest_RemoveBot(w)
    \/ \E w \in Workers, id \in ReqIds, e \in Experts : CallAcceptRequest(w, id, e)
    \/ \E w \in Workers : AcceptRequest_AcceptRequest(w)
    \/ \E w \in Workers : AcceptRequest_GetRequestByID(w)
    \/ \E w \in Workers : AcceptRequest_AddExpert(w)
    \/ \E w \in Workers, id \in ReqIds, e \in Experts : ResolveRequest(w, id, e)
    \/ \E w \in Workers : Return(w)

Spec == Init /\ [][Next]_vars

\* The repository under concurrent callers.
StoreNext ==
    \/ \E sid \in Sids, sum \in Summaries :
          Repo_CreateRequest(Caller, "u1", sid, sum)
    \/ \E id \in StoreIds, e \in Experts : Repo_AcceptRequest(Caller, id, e)
    \/ \E id \in StoreIds, e \in Experts : ResolveRequest(Caller, id, e)
    \/ GetPendingRequests(Caller)
    \/ Return(Caller)

StoreSpec == Init /\ [][StoreNext]_vars

\* The repository's writes and its fetch by id.
FetchNext ==
    \/ \E sid \in Sids, sum \in Summaries :
          Repo_CreateRequest(Caller, "u1", sid, sum)
    \/ \E id \in StoreIds, e \in Experts : Repo_AcceptRequest(Caller, id, e)
    \/ \E id \in StoreIds, e \in Experts : ResolveRequest(Caller, id, e)
    \/ \E id \in StoreIds : Repo_GetRequestByID(Caller, id)
    \/ Return(Caller)

FetchSpec == Init /\ [][FetchNext]_vars

\* The five operations of the service, called one after another.
ServiceNext ==
    \/ \E u \in Users, sid \in Sids : CallCreateRequest(Caller, u, sid)
    \/ CreateRequest_DebitToken(Caller)
    \/ CreateRequest_Summarize(Caller)
    \/ CreateRequest_CreateRequest(Caller)
    \/ CreateRequest_RemoveBot(Caller)
    \/ \E id \in ReqIds, e \in Experts : CallAcceptRequest(Caller, id, e)
    \/ AcceptRequest_AcceptRequest(Caller)
    \/ AcceptRequest_GetRequestByID(Caller)
    \/ AcceptRequest_AddExpert(Caller)
    \/ \E id \in ReqIds, e \in Experts : ResolveRequest(Caller, id, e)
    \/ GetPendingRequests(Caller)
    \/ \E id \in ReqIds, score \in {Min(Scores)} :
          SubmitRating(Caller, id, "u1", "e1", score)
    \/ Return(Caller)

ServiceSpec == Init /\ [][ServiceNext]_vars

\* The stages of one request's life, each produced by the repository itself:
\* no request yet, pending, active, resolved.
LifecycleStores ==
    LET r == AssistanceRequest("u1", "sumA", "CH1")
        s1 == postgresRepository_CreateRequest(<<>>, r, 1, 0, FALSE).store
        s2 == postgresRepository_AcceptRequest(s1, 1, "e1", 0, FALSE).store
        s3 == postgresRepository_ResolveRequest(s2, 1, 0, FALSE).store IN
    {<<>>, s1, s2, s3}

LifecycleInit ==
    /\ store \in LifecycleStores
    /\ balance = [u \in {"u1"} |-> InitTokens - Len(store)]
    /\ now = 0
    /\ op = [w \in Workers |-> "idle"]
    /\ pc = [w \in Workers |-> "idle"]
    /\ args = [w \in Workers |-> NoArgs]
    /\ req = [w \in Workers |-> Nil]
    /\ err = [w \in Workers |-> Nil]
    /\ calls = [w \in Workers |-> <<>>]
    /\ ratings = {}

\* Ratings submitted at any stage of a request's life.
RatingNext ==
    \/ \E id \in ReqIds, u \in Users, e \in Experts, score \in Scores :
          SubmitRating(Caller, id, u, e, score)
    \/ Return(Caller)

RatingSpec == LifecycleInit /\ [][RatingNext]_vars

\* The request_id fields a payload may carry.
PayloadIds == {Text(id) : id \in ReqIds} \cup {Malformed}

\* The rate, resolve and accept endpoints, at any stage of a request's life.
ApiNext ==
    \/ \E id \in PayloadIds, e \in {Text("e1"), Malformed},
          score \in Scores, decoded \in BOOLEAN :
          Api_handleRateRequest(Caller, id, e, score, decoded)
    \/ \E id \in PayloadIds, decoded \in BOOLEAN :
          Api_handleResolveRequest(Caller, id, decoded)
    \/ \E id \in PayloadIds, decoded \in BOOLEAN :
          Api_handleAcceptRequest(Caller, id, decoded)
    \/ AcceptRequest_AcceptRequest(Caller)
    \/ AcceptRequest_GetRequestByID(Caller)
    \/ AcceptRequest_AddExpert(Caller)
    \/ Return(Caller)

ApiSpec == LifecycleInit /\ [][ApiNext]_vars

\* The billing service with any starting balances, under concurrent callers.
BillingInit ==
    /\ store = <<>>
    /\ balance \in [Payers -> 0..InitTokens]
    /\ now = 0
    /\ op = [w \in Workers |-> "idle"]
    /\ pc = [w \in Workers |-> "idle"]
    /\ args = [w \in Workers |-> NoArgs]
    /\ req = [w \in Workers |-> Nil]
    /\ err = [w \in Workers |-> Nil]
    /\ calls = [w \in Workers |-> <<>>]
    /\ ratings = {}

BillingNext ==
    \/ \E w \in Workers, u \in BillingUsers, wf \in BOOLEAN :
          Billing_handleDebitToken(w, u, wf)
    \/ \E w \in Workers, u \in BillingUsers, a \in Amounts, wf \in BOOLEAN :
          Billing_handleCreditToken(w, u, a, wf)

BillingSpec == BillingInit /\ [][BillingNext]_vars

(* ------------------------------ claims --------------------------------- *)

Last(q) == q[Len(q)]

\* The error service.AcceptRequest returns when the conditional update
\* affected no row.
ErrConflict ==
    Wrap("could not accept request",
         Errorf("request not found or was already accepted"))

\* An infrastructure failure (database, transport, chat gateway) ended e.
Infra(e) == e # Nil /\ Last(e) = Cause

\* w runs AcceptRequest on id and the store has executed its UPDATE.
Updated(w, id) ==
    /\ op[w] = "AcceptRequest" /\ args[w].requestID = id
    /\ calls[w] # <<>>

\* Two AcceptRequest calls in flight together on id, by distinct experts, both
\* having arrived while the request was pending.
Racing(w, v, id) ==
    /\ w # v
    /\ Updated(w, id) /\ Updated(v, id)
    /\ args[w].pendingAtCall /\ args[v].pendingAtCall
    /\ args[w].expertID # args[v].expertID

\* C1: of two concurrent AcceptRequest calls on the same pending request by
\* distinct experts, in every interleaving exactly one has its conditional
\* update succeed and the other gets "request not found or was already
\* accepted"; the expert id in the store is the winner's; and once both have
\* returned, exactly one returned without error.  (Calls cut short by an
\* infrastructure failure are outside the race.)
C1_ExactlyOneAcceptWins ==
    \A w, v \in Workers : \A id \in ReqIds :
        (Racing(w, v, id) /\ ~Infra(err[w]) /\ ~Infra(err[v])) =>
            /\ calls[w][1].ok # calls[v][1].ok
            /\ calls[w][1].ok =>
                 /\ err[v] = ErrConflict
                 /\ store[id].ExpertID = SomeUUID(args[w].expertID)
                 /\ store[id].Status \in {"active", "resolved"}
                 /\ (pc[w] = "return" /\ pc[v] = "return") =>
                        (err[w] = Nil /\ req[w] # Nil /\ req[v] = Nil)

\* Both racing calls have returned, one with the request and one with the conflict.
C1_Witness ==
    \E w, v \in Workers : \E id \in ReqIds :
        /\ Racing(w, v, id)
        /\ pc[w] = "return" /\ pc[v] = "return"
        /\ err[w] = Nil /\ err[v] = ErrConflict
        /\ store[id].ExpertID.UUID = args[w].expertID

IsStatus(st, id, status) == id \in DOMAIN st /\ st[id].Status = status

\* C2: the store's accept transition succeeds only on a request whose status
\* is exactly pending, and its resolve transition only on one whose status is
\* exactly active; in every other state, a missing id included, the call
\* fails and changes no row.
C2_TransitionsGuarded ==
    [][\A w \in Workers :
         /\ (op[w] = "AcceptRequest" /\ pc[w] = "AcceptRequest"
               /\ pc'[w] # pc[w]) =>
              /\ Last(calls'[w]).ok => IsStatus(store, args[w].requestID, "pending")
              /\ ~IsStatus(store, args[w].requestID, "pending") =>
                   (~Last(calls'[w]).ok /\ err'[w] # Nil /\ store' = store)
         /\ (op[w] = "idle" /\ op'[w] = "ResolveRequest") =>
              /\ err'[w] = Nil => IsStatus(store, args'[w].requestID, "active")
              /\ ~IsStatus(store, args'[w].requestID, "active") =>
                   (err'[w] # Nil /\ store' = store)
      ]_vars

\* An accept was refused on a resolved request and a resolve on a missing one.
C2_Witness ==
    \E w, v \in Workers :
        /\ op[w] = "AcceptRequest" /\ err[w] = ErrConflict
        /\ IsStatus(store, args[w].requestID, "resolved")
        /\ op[v] = "ResolveRequest"
        /\ err[v] = Errorf("request not found or was not active")
        /\ args[v].requestID \notin DOMAIN store

\* C3: in every state of the store, for every request: the expert id is
\* present iff the status is active or resolved, the acceptance time is
\* present iff the status is active or resolved, and the resolution time is
\* present iff the status is resolved.
C3_FieldsMatchStatus ==
    \A id \in DOMAIN store :
        /\ store[id].Status \in {"pending", "active", "resolved"}
        /\ store[id].ExpertID.Valid <=> store[id].Status \in {"active", "resolved"}
        /\ store[id].AcceptedAt.Valid <=> store[id].Status \in {"active", "resolved"}
        /\ store[id].ResolvedAt.Valid <=> store[id].Status = "resolved"

\* A request that has gone through the whole lifecycle.
C3_Witness ==
    \E id \in DOMAIN store :
        /\ store[id].Status = "resolved"
        /\ store[id].ExpertID.Valid /\ store[id].AcceptedAt.Valid
        /\ store[id].ResolvedAt.Valid

\* C4: whatever the calls and their interleaving, a request's status only
\* moves pending -> active -> resolved: a row is never removed, is created
\* pending, never moves backwards, never changes once resolved, and never
\* goes from pending straight to resolved.
C4_StatusMonotonic ==
    [][/\ \A id \in DOMAIN store :
            /\ id \in DOMAIN store'
            /\ <<store[id].Status, store'[id].Status>> \in
                  {<<"pending", "pending">>, <<"pending", "active">>,
                   <<"active", "active">>, <<"active", "resolved">>,
                   <<"resolved", "resolved">>}
       /\ \A id \in DOMAIN store' \ DOMAIN store : store'[id].Status = "pending"
      ]_vars

\* A resolved request on which a later accept was refused.
C4_Witness ==
    \E w \in Workers :
        /\ op[w] = "AcceptRequest" /\ pc[w] = "return" /\ err[w] = ErrConflict
        /\ ~args[w].pendingAtCall
        /\ IsStatus(store, args[w].requestID, "resolved")

\* w runs CreateRequest and its k-th collaborator call is the one that failed.
FailedAt(w, k) ==
    /\ op[w] = "CreateRequest"
    /\ Len(calls[w]) >= k
    /\ ~calls[w][k].ok
    /\ \A i \in 1..(k - 1) : calls[w][i].ok

Names(q) == [i \in 1..Len(q) |-> q[i].name]

\* w takes a step of its CreateRequest from program point p.
CreateStep(w, p) ==
    op[w] = "CreateRequest" /\ pc[w] = p /\ pc'[w] # pc[w]

\* C5: if Billing.DebitToken fails during CreateRequest, the operation returns
\* the error "token debit failed: ..." and no request, no record is created,
\* and neither Summarize, nor the store's insert, nor RemoveBot is called.
C5_DebitFailureShortCircuits ==
    /\ [](\A w \in Workers : FailedAt(w, 1) =>
            /\ pc[w] = "return"
            /\ Names(calls[w]) = <<"DebitToken">>
            /\ Len(err[w]) >= 2 /\ err[w][1] = "token debit failed"
            /\ req[w] = Nil)
    /\ [][\A w \in Workers :
            (CreateStep(w, "DebitToken") /\ ~Last(calls'[w]).ok) =>
                (store' = store /\ balance' = balance)]_vars

\* A CreateRequest has returned "token debit failed: insufficient funds".
C5_Witness ==
    \E w \in Workers :
        /\ FailedAt(w, 1) /\ pc[w] = "return"
        /\ err[w] = <<"token debit failed", "insufficient funds">>
        /\ args[w].userID \in DOMAIN balance
        /\ balance[args[w].userID] = 0

\* C6: if the debit succeeds but Summarize fails, CreateRequest returns the
\* error "could not summarize chat: ..." and no request, no record is
\* created, and RemoveBot is never called.
C6_SummarizeFailureShortCircuits ==
    /\ [](\A w \in Workers : FailedAt(w, 2) =>
            /\ pc[w] = "return"
            /\ Names(calls[w]) = <<"DebitToken", "Summarize">>
            /\ err[w] = Wrap("could not summarize chat", Errorf(Cause))
            /\ req[w] = Nil)
    /\ [][\A w \in Workers :
            (CreateStep(w, "Summarize") /\ ~Last(calls'[w]).ok) =>
                store' = store]_vars

\* A CreateRequest has returned "could not summarize chat" after a debit.
C6_Witness ==
    \E w \in Workers :
        /\ FailedAt(w, 2) /\ pc[w] = "return"
        /\ calls[w][1].ok
        /\ balance[args[w].userID] < InitTokens
        /\ DOMAIN store = {}

BotRemovalFailed(w) ==
    /\ FailedAt(w, 4) /\ pc[w] = "return"

\* C8: if the insert succeeds but bot removal fails, CreateRequest still
\* returns the created request, marked pending, with no error, and the
\* persisted record remains in status pending: the failing call changes no
\* row, and while the CreateRequest is in progress the record leaves pending
\* only through the accept of an expert, never through the CreateRequest.
C8_BotRemovalFailureNonFatal ==
    /\ [](\A w \in Workers : BotRemovalFailed(w) =>
            /\ err[w] = Nil /\ req[w] # Nil
            /\ req[w][1].Status = "pending"
            /\ req[w][1].RequestID \in DOMAIN store
            /\ LET row == store[req[w][1].RequestID] IN
               /\ row.UserID = args[w].userID
               /\ row.TwilioConversationSID = args[w].twilioSID
               /\ row.LLMSummary = args[w].summary
               /\ (row.Status # "pending" => row.ExpertID.Valid))
    /\ [][\A w \in Workers :
            /\ (CreateStep(w, "RemoveBot") /\ ~Last(calls'[w]).ok) =>
                  (store' = store /\ err'[w] = Nil /\ req'[w] = req[w])
            /\ (op[w] = "CreateRequest" /\ req[w] # Nil
                  /\ IsStatus(store, req[w][1].RequestID, "pending")
                  /\ ~IsStatus(store', req[w][1].RequestID, "pending")) =>
                  \E v \in Workers \ {w} :
                      /\ op[v] = "AcceptRequest" /\ pc[v] = "AcceptRequest"
                      /\ args[v].requestID = req[w][1].RequestID
                      /\ Last(calls'[v]).ok]_vars

\* Bot removal failed, the request was returned, and its record is pending.
C8_Witness ==
    \E w \in Workers :
        /\ BotRemovalFailed(w)
        /\ err[w] = Nil /\ req[w] # Nil
        /\ store[req[w][1].RequestID] = req[w][1]

\* C9: if the store's insert fails after debit and summarization succeeded,
\* CreateRequest returns the error "could not save request: ..." and nil
\* instead of a request, RemoveBot is never called, no row is added, and the
\* token stays debited.
C9_InsertFailureShortCircuits ==
    /\ [](\A w \in Workers : FailedAt(w, 3) =>
            /\ pc[w] = "return"
            /\ Names(calls[w]) = <<"DebitToken", "Summarize", "CreateRequest">>
            /\ err[w] = Wrap("could not save request",
                             Wrap("could not insert request", Errorf(Cause)))
            /\ req[w] = Nil)
    /\ [][\A w \in Workers :
            (CreateStep(w, "CreateRequest") /\ ~Last(calls'[w]).ok) =>
                (store' = store /\ balance' = balance)]_vars

\* The insert failed, nothing was stored, and the token is gone.
C9_Witness ==
    \E w \in Workers :
        /\ FailedAt(w, 3) /\ pc[w] = "return"
        /\ DOMAIN store = {}
        /\ balance[args[w].userID] = InitTokens - 1

CreateOrder == <<"DebitToken", "Summarize", "CreateRequest", "RemoveBot">>

Created(w) ==
    /\ op[w] = "CreateRequest" /\ pc[w] = "return" /\ err[w] = Nil

\* C11: a successful CreateRequest(userID, twilioSID) returns a request with
\* status pending, the given user id, the summary the summarization call
\* returned, the given chat-session id, a creation time, and no expert id,
\* acceptance time or resolution time; its insert adds exactly that request to
\* the store under an id no request had before, and GetRequestByID on that id
\* then returns the same values.
C11_CreateStoresPendingRequest ==
    /\ [](\A w \in Workers : Created(w) =>
            /\ req[w] # Nil
            /\ req[w][1].RequestID \in DOMAIN store
            /\ req[w][1].Status = "pending"
            /\ req[w][1].UserID = args[w].userID
            /\ req[w][1].LLMSummary = args[w].summary
            /\ args[w].summary \in Summaries
            /\ req[w][1].TwilioConversationSID = args[w].twilioSID
            /\ req[w][1].CreatedAt \in Times
            /\ req[w][1].ExpertID = NullUUID
            /\ req[w][1].AcceptedAt = NullTime
            /\ req[w][1].ResolvedAt = NullTime)
    /\ [][\A w \in Workers :
            (CreateStep(w, "CreateRequest") /\ Last(calls'[w]).ok) =>
                LET r == req'[w][1] IN
                /\ r.RequestID \notin DOMAIN store
                /\ r.RequestID # Missing
                /\ DOMAIN store' = DOMAIN store \cup {r.RequestID}
                /\ \A id \in DOMAIN store : store'[id] = store[id]
                /\ store'[r.RequestID] = r
                /\ r.CreatedAt = now'
                /\ postgresRepository_GetRequestByID(store', r.RequestID, FALSE)
                      = [req |-> <<r>>, err |-> Nil]]_vars

\* A CreateRequest has returned the request that GetRequestByID finds.
C11_Witness ==
    \E w \in Workers :
        /\ Created(w) /\ req[w] # Nil
        /\ \A i \in 1..4 : calls[w][i].ok
        /\ postgresRepository_GetRequestByID(store, req[w][1].RequestID, FALSE).req
              = req[w]

\* w runs AcceptRequest and its k-th call is the one that failed.
AcceptFailedAt(w, k) ==
    /\ op[w] = "AcceptRequest"
    /\ Len(calls[w]) >= k
    /\ ~calls[w][k].ok
    /\ \A i \in 1..(k - 1) : calls[w][i].ok

AcceptStep(w, p) ==
    op[w] = "AcceptRequest" /\ pc[w] = p /\ pc'[w] # pc[w]

\* C12: when the conditional accept affects no row (the request is missing or
\* not pending), AcceptRequest returns "could not accept request: request not
\* found or was already accepted" and no request, neither re-fetches the
\* request nor calls AddExpert, and leaves the store unchanged.
C12_ConflictShortCircuits ==
    /\ [](\A w \in Workers :
            (AcceptFailedAt(w, 1) /\ ~Infra(err[w])) =>
                /\ pc[w] = "return"
                /\ Names(calls[w]) = <<"AcceptRequest">>
                /\ err[w] = ErrConflict
                /\ req[w] = Nil)
    /\ [][\A w \in Workers :
            (AcceptStep(w, "AcceptRequest")
               /\ ~IsStatus(store, args[w].requestID, "pending")) =>
                /\ store' = store
                /\ pc'[w] = "return"
                /\ err'[w] = ErrConflict \/ Infra(err'[w])]_vars

\* An AcceptRequest on an id that names no request has returned the conflict.
C12_Witness ==
    \E w \in Workers :
        /\ AcceptFailedAt(w, 1) /\ pc[w] = "return"
        /\ err[w] = ErrConflict
        /\ args[w].requestID \notin DOMAIN store

\* w's AcceptRequest has returned a request and no error.
Accepted(w) ==
    /\ op[w] = "AcceptRequest" /\ pc[w] = "return" /\ err[w] = Nil

\* C13: every AcceptRequest that returns successfully returns the request in
\* status active with the calling expert's id assigned, also when other
\* AcceptRequest and ResolveRequest calls on the same request run concurrently.
C13_AcceptReturnsActive ==
    \A w \in Workers : Accepted(w) =>
        /\ req[w] # Nil
        /\ req[w][1].Status = "active"
        /\ req[w][1].ExpertID = SomeUUID(args[w].expertID)

\* C14: if AddExpert fails after the conditional accept succeeded,
\* AcceptRequest returns "failed to add expert to chat: ..." and no request,
\* and the store keeps the request accepted by that expert: the failing step
\* changes no row and nothing puts the request back to pending (it is active
\* until a ResolveRequest resolves it).
C14_AddExpertFailureNoRollback ==
    /\ [](\A w \in Workers : AcceptFailedAt(w, 3) =>
            /\ pc[w] = "return"
            /\ err[w] = Wrap("failed to add expert to chat", Errorf(Cause))
            /\ req[w] = Nil
            /\ LET row == store[args[w].requestID] IN
               /\ row.Status \in {"active", "resolved"}
               /\ row.ExpertID = SomeUUID(args[w].expertID)
               /\ row.AcceptedAt.Valid
               /\ (row.Status = "resolved" <=> row.ResolvedAt.Valid))
    /\ [][\A w \in Workers :
            (AcceptStep(w, "AddExpert") /\ ~Last(calls'[w]).ok) =>
                (store' = store /\ err'[w] # Nil /\ req'[w] = Nil)]_vars

\* AddExpert failed, the call returned the error, and the request is active
\* with the caller assigned.
C14_Witness ==
    \E w \in Workers :
        /\ AcceptFailedAt(w, 3) /\ pc[w] = "return" /\ err[w] # Nil
        /\ IsStatus(store, args[w].requestID, "active")
        /\ store[args[w].requestID].ExpertID.UUID = args[w].expertID

AcceptOrder == <<"AcceptRequest", "GetRequestByID", "AddExpert">>

\* C15: in every AcceptRequest the steps occur in the order conditional
\* update, re-fetch by id, AddExpert; each is invoked at most once and only
\* after the previous one succeeded; and AddExpert is called with the chat
\* session of the re-fetched request and the caller's expert id.
C15_AcceptFixedOrder ==
    \A w \in Workers : op[w] = "AcceptRequest" =>
        /\ Len(calls[w]) <= 3
        /\ Names(calls[w]) = SubSeq(AcceptOrder, 1, Len(calls[w]))
        /\ \A i \in 1..(Len(calls[w]) - 1) : calls[w][i].ok
        /\ (pc[w] # "return") => pc[w] = AcceptOrder[Len(calls[w]) + 1]
        /\ (pc[w] = "AddExpert") =>
               (req[w] # Nil /\ req[w][1].RequestID = args[w].requestID)
        /\ (Len(calls[w]) = 3) =>
               /\ calls[w][3].sid = store[args[w].requestID].TwilioConversationSID
               /\ calls[w][3].sid \in Sids
               /\ calls[w][3].expertID = args[w].expertID

\* All three steps of an AcceptRequest ran and it returned the request.
C15_Witness ==
    \E w \in Workers :
        /\ Accepted(w) /\ req[w] # Nil
        /\ Names(calls[w]) = AcceptOrder
        /\ \A i \in 1..3 : calls[w][i].ok
        /\ calls[w][3].sid = req[w][1].TwilioConversationSID

\* w takes the (single) step of a ResolveRequest.
ResolveStep(w) == op[w] = "idle" /\ op'[w] = "ResolveRequest"

\* C16: ResolveRequest on a request that does not exist or is not active
\* returns "request not found or was not active" and changes no row; on an
\* active request it sets the status to resolved and stamps the resolution
\* time, changing nothing else.  (A database failure returns its own error and
\* changes no row either.)
C16_ResolveConditional ==
    [][\A w \in Workers : ResolveStep(w) =>
          LET id == args'[w].requestID IN
          IF IsStatus(store, id, "active")
          THEN \/ /\ err'[w] = Nil
                  /\ store' = [store EXCEPT ![id].Status = "resolved",
                                            ![id].ResolvedAt = SomeTime(now')]
               \/ /\ Infra(err'[w]) /\ store' = store
          ELSE /\ store' = store
               /\ \/ err'[w] = Errorf("request not found or was not active")
                  \/ Infra(err'[w])
      ]_vars

\* A ResolveRequest has just resolved an active request at the current time.
C16_Witness ==
    \E w \in Workers :
        /\ op[w] = "ResolveRequest" /\ err[w] = Nil
        /\ IsStatus(store, args[w].requestID, "resolved")
        /\ store[args[w].requestID].ResolvedAt = SomeTime(now)
        /\ store[args[w].requestID].AcceptedAt.Valid

\* C17: the outcome and effect of ResolveRequest(requestID, expertID) do not
\* depend on expertID: whenever a ResolveRequest is made, the same call with
\* any other expert id returns the same error and produces the same store,
\* whether or not the expert is the one assigned to the request; so any expert
\* id resolves any active request.
C17_ResolveIgnoresExpert ==
    [][\A w \in Workers : ResolveStep(w) =>
          LET id == args'[w].requestID
              dbFault == Infra(err'[w]) IN
          /\ \A e \in Experts :
               service_ResolveRequest(store, id, e, now', dbFault)
                  = [store |-> store', err |-> err'[w]]
          /\ (IsStatus(store, id, "active") /\ ~dbFault) => err'[w] = Nil
      ]_vars

\* A request was resolved by an expert other than the one assigned to it.
C17_Witness ==
    \E w \in Workers :
        /\ op[w] = "ResolveRequest" /\ err[w] = Nil
        /\ IsStatus(store, args[w].requestID, "resolved")
        /\ store[args[w].requestID].ExpertID.Valid
        /\ store[args[w].requestID].ExpertID.UUID # args[w].expertID

\* The ids of the requests in a returned slice.
Ids(q) == {q[i].RequestID : i \in 1..Len(q)}

\* w takes the (single) step of a GetPendingRequests that returns no error.
ReadStep(w) ==
    op[w] = "idle" /\ op'[w] = "GetPendingRequests" /\ err'[w] = Nil

C19_AcceptedNeverListed ==
    /\ [][\A w \in Workers :
            (op[w] = "idle" /\ op'[w] = "repo.AcceptRequest" /\ err'[w] = Nil) =>
                IsStatus(store', args'[w].requestID, "active")]_vars
    /\ [][\A id \in DOMAIN store :
            store[id].Status # "pending" =>
                (id \in DOMAIN store' /\ store'[id].Status # "pending")]_vars
    /\ [][\A w \in Workers : ReadStep(w) =>
            \A id \in DOMAIN store :
                store[id].Status # "pending" => id \notin Ids(req'[w])]_vars

\* A read returned a request created after another request was accepted, and
\* not the accepted one.
C19_Witness ==
    /\ op[Caller] = "GetPendingRequests" /\ err[Caller] = Nil
    /\ \E id \in DOMAIN store : \E i \in 1..Len(req[Caller]) :
         /\ store[id].Status \in {"active", "resolved"}
         /\ store[id].AcceptedAt.Time < req[Caller][i].CreatedAt
         /\ id \notin Ids(req[Caller])

\* C20: the order GetPendingRequests returns is stable and deterministic also
\* for pending requests with identical creation times: a read returns what
\* every read of the same store state returns.
C20_StableOrder ==
    [][\A w \in Workers : ReadStep(w) =>
          \A r \in postgresRepository_GetPendingRequests(store, FALSE) :
              r.reqs = req'[w]]_vars

(* ------------------------------ billing -------------------------------- *)

ErrInsufficient == Errorf("insufficient funds or user not found")

\* Worker w's billing request named name was answered in this step.
BillingStep(w, name) ==
    /\ Len(calls'[w]) = Len(calls[w]) + 1
    /\ Last(calls'[w]).name = name

\* C21: the debit never drives a balance below zero: every balance is >= 0
\* in every reachable state, and under any interleaving of debits by
\* concurrent callers each successful debit consumed a token that was
\* available (the balance was >= 1 right before it).
C21_BalanceNeverNegative ==
    /\ [](\A u \in DOMAIN balance : balance[u] >= 0)
    /\ [][\A w \in Workers :
            BillingStep(w, "debit") /\ Last(calls'[w]).ok
              => LET u == Last(calls'[w]).userID IN
                 /\ u \in DOMAIN balance
                 /\ balance[u] >= 1
                 /\ balance'[u] >= 0]_vars

\* Two callers debited the same user: the first took the last token, the
\* second was refused.
C21_Witness ==
    \E u \in Payers :
        /\ balance[u] = 0
        /\ Len(calls["w1"]) = 1 /\ Len(calls["w2"]) = 1
        /\ \A w \in Workers : calls[w][1].name = "debit" /\ calls[w][1].userID = u
        /\ \E w \in Workers : calls[w][1].ok
        /\ \E w \in Workers : calls[w][1].status = 409

\* C22: a debit whose query ran fails with the error "insufficient funds or
\* user not found" exactly when the user does not exist or the balance is 0,
\* and then no balance changes; otherwise it takes exactly 1 from that
\* user's balance, changes no other balance and returns the new balance.
C22_DebitContract ==
    [][\A w \in Workers :
         BillingStep(w, "debit") /\ Last(calls'[w]).status \in {200, 409}
           => LET c == Last(calls'[w])
                  u == c.userID
                  refused == u \notin DOMAIN balance \/ balance[u] = 0 IN
              /\ (c.err = ErrInsufficient) <=> refused
              /\ refused => ~c.ok /\ balance' = balance
              /\ ~refused =>
                    /\ c.ok /\ c.err = Nil
                    /\ balance'[u] = balance[u] - 1
                    /\ c.newBalance = balance'[u]
                    /\ \A v \in DOMAIN balance \ {u} : balance'[v] = balance[v]]_vars

\* One user was debited successfully while another held tokens, an unknown
\* user was refused.
C22_Witness ==
    \E w \in Workers, v \in Workers :
        /\ Len(calls[w]) >= 1 /\ Len(calls[v]) >= 1
        /\ Last(calls[w]).name = "debit" /\ Last(calls[w]).ok
        /\ Last(calls[w]).newBalance = 0
        /\ \E u \in Payers \ {Last(calls[w]).userID} : balance[u] >= 1
        /\ Last(calls[v]).name = "debit"
        /\ Last(calls[v]).userID \notin Payers
        /\ Last(calls[v]).err = ErrInsufficient

\* C23: debit and credit are idempotent for the caller: a caller repeating
\* its previous successful call (same operation, user and amount) does not
\* change any balance a second time.
C23_Idempotent ==
    [][\A w \in Workers :
         /\ Len(calls'[w]) = Len(calls[w]) + 1
         /\ Len(calls[w]) >= 1
         /\ Last(calls[w]).ok
         /\ Last(calls'[w]).name = Last(calls[w]).name
         /\ Last(calls'[w]).userID = Last(calls[w]).userID
         /\ Last(calls'[w]).amount = Last(calls[w]).amount
         => balance' = balance]_vars

(* --------------------------- HTTP answers ------------------------------ *)

\* Worker w's call of operation o has returned to the handler.
Returned(w, o) == op[w] = o /\ pc[w] = "return"

C25_AcceptAnswers ==
    \A w \in Workers :
        Returned(w, "AcceptRequest") =>
            LET answer == handleAcceptRequest(req[w], err[w])
                zeroRows == calls[w][1].name = "AcceptRequest"
                              /\ calls[w][1].rowsAffected = 0 IN
            /\ answer.status = 409 <=> zeroRows
            /\ (err[w] # Nil /\ ~zeroRows) <=> answer.status = 500
            /\ err[w] = Nil <=> answer.status = 200
            /\ answer.status = 200 =>
                  /\ answer.body # Nil
                  /\ answer.body[1].RequestID = args[w].requestID
                  /\ answer.body[1].ExpertID = SomeUUID(args[w].expertID)
            /\ (Len(calls[w]) = 3 /\ ~calls[w][3].ok) => answer.status = 500

\* One expert lost the race and was answered 409 while the winner's
\* add-expert step failed and was answered 500.
C25_Witness ==
    \E w \in Workers, v \in Workers :
        /\ Returned(w, "AcceptRequest") /\ Returned(v, "AcceptRequest")
        /\ args[w].requestID = args[v].requestID
        /\ calls[w][1].rowsAffected = 0
        /\ handleAcceptRequest(req[w], err[w]).status = 409
        /\ Len(calls[v]) = 3 /\ calls[v][3].name = "AddExpert" /\ ~calls[v][3].ok
        /\ handleAcceptRequest(req[v], err[v]).status = 500

(* ------------------------- error propagation --------------------------- *)

\* The context service.CreateRequest and service.AcceptRequest put in front
\* of the error of each step.
StepContext(name) ==
    CASE name = "DebitToken" -> "token debit failed"
      [] name = "Summarize" -> "could not summarize chat"
      [] name = "CreateRequest" -> "could not save request"
      [] name = "AcceptRequest" -> "could not accept request"
      [] name = "GetRequestByID" -> "could not fetch accepted request"
      [] name = "AddExpert" -> "failed to add expert to chat"
      [] OTHER -> ""

\* The failed calls of w's operation other than bot removal.
Fatal(w) ==
    {i \in 1..Len(calls[w]) : ~calls[w][i].ok /\ calls[w][i].name # "RemoveBot"}

\* C26 as stated: whenever a fatal step of any of the five operations
\* failed, the operation returns that collaborator's error wrapped in a
\* context added by the orchestrator.
C26_EveryErrorWrapped ==
    \A w \in Workers :
        pc[w] = "return" /\ Fatal(w) # {} =>
            /\ err[w] # Nil
            /\ Tail(err[w]) = Last(calls[w]).err

\* C26, as the code has it: no operation swallows the error of a fatal step
\* and only a failed bot removal is dropped; CreateRequest and AcceptRequest
\* return the collaborator's error behind a context naming the failed step,
\* while ResolveRequest, GetPendingRequests and SubmitRating return the
\* repository's error unchanged.
C26_FatalErrorsReturned ==
    \A w \in Workers :
        pc[w] = "return" =>
            /\ err[w] = Nil <=> Fatal(w) = {}
            /\ Fatal(w) # {} =>
                  LET c == Last(calls[w]) IN
                  /\ Fatal(w) = {Len(calls[w])}
                  /\ err[w] = IF op[w] \in {"CreateRequest", "AcceptRequest"}
                              THEN <<StepContext(c.name)>> \o c.err
                              ELSE c.err

\* CreateRequest failed at the store insert, after the debit and the
\* summarization succeeded.
C26_Witness ==
    \E w \in Workers :
        /\ Returned(w, "CreateRequest")
        /\ Len(calls[w]) = 3 /\ ~calls[w][3].ok
        /\ err[w] = <<"could not save request", "could not insert request", Cause>>

(* ------------------------------ ratings -------------------------------- *)

\* Worker w's SubmitRating ran in this step.
RatingStep(w) == Idle(w) /\ op'[w] = "SubmitRating"

\* C28: SubmitRating never refuses a rating: it fails only when the insert
\* itself fails, and otherwise adds exactly one row, with a rating id no
\* other row has and the request, user, expert and score it was given,
\* whatever the state of the request and whatever ratings exist; it changes
\* no request record.
C28_RatingUnconditional ==
    [][\A w \in Workers :
         RatingStep(w) =>
             /\ store' = store
             /\ err'[w] # Nil => Infra(err'[w]) /\ ratings' = ratings
             /\ err'[w] = Nil =>
                   \E row \in ratings' :
                       /\ row \notin ratings
                       /\ ratings' = ratings \cup {row}
                       /\ \A x \in ratings : x.RatingID # row.RatingID
                       /\ row.RequestID = args'[w].requestID
                       /\ row.UserID = args'[w].userID
                       /\ row.ExpertID = args'[w].expertID
                       /\ row.Score = args'[w].score]_vars

\* An active request holds two ratings, the second from a user who is not
\* its requester and for an expert who is not its assignee.
C28_Witness ==
    \E w \in Workers, id \in DOMAIN store, x \in ratings, y \in ratings :
        /\ Returned(w, "SubmitRating") /\ err[w] = Nil
        /\ store[id].Status = "active"
        /\ x.RatingID # y.RatingID
        /\ x.RequestID = id /\ y.RequestID = id
        /\ y.UserID # store[id].UserID
        /\ SomeUUID(y.ExpertID) # store[id].ExpertID

(* ------------------------- the HTTP boundary --------------------------- *)

\* C27: a request whose payload carries a malformed identifier is rejected
\* at the HTTP boundary: the orchestrator is never invoked for it.
C27_MalformedRejected ==
    \A w \in Workers : args[w].malformed => calls[w] = <<>>

\* C29: every persisted rating has a score in 1..5, and a submission whose
\* score is outside that range is rejected at the boundary: the orchestrator
\* is not invoked for it and nothing is stored.
C29_ScoreInRange ==
    /\ \A row \in ratings : row.Score \in 1..5
    /\ \A w \in Workers :
          op[w] = "handleRateRequest" /\ args[w].score \notin 1..5
            => calls[w] = <<>>

(* --------------------------- user profile ------------------------------ *)

\* C30: CreateRequest fetches the requesting user's profile before anything
\* else: the first collaborator call of every CreateRequest is
\* GetUserProfile (after which a superadmin is not debited and a user is).
C30_ProfileFetchedFirst ==
    \A w \in Workers :
        op[w] = "CreateRequest" /\ calls[w] # <<>> =>
            calls[w][1].name = "GetUserProfile"

\* The calls of service.CreateRequest that the tests place after the profile
\* fetch.
AfterProfile == {"DebitToken", "Summarize", "CreateRequest", "RemoveBot"}

\* C31: when the profile fetch at the start of CreateRequest fails, none of
\* DebitToken, Summarize, the store insert or RemoveBot is called: each of
\* these calls is made only after a GetUserProfile call of the same
\* invocation that succeeded.
C31_NothingWithoutProfile ==
    \A w \in Workers :
        op[w] = "CreateRequest" =>
            \A i \in 1..Len(calls[w]) :
                calls[w][i].name \in AfterProfile =>
                    \E j \in 1..(i - 1) :
                        calls[w][j].name = "GetUserProfile" /\ calls[w][j].ok

(* ------------------------------ no retries ----------------------------- *)

\* C32: no retries: within one CreateRequest or AcceptRequest invocation
\* each collaborator operation is called at most once, so at most one debit
\* of the invocation succeeds, and the first failure of a fatal step is the
\* invocation's last call: the invocation has ended with that error.
C32_NoRetries ==
    \A w \in Workers :
        op[w] \in {"CreateRequest", "AcceptRequest"} =>
            /\ \A i \in 1..Len(calls[w]), j \in 1..Len(calls[w]) :
                   calls[w][i].name = calls[w][j].name => i = j
            /\ Cardinality({i \in 1..Len(calls[w]) :
                   calls[w][i].name = "DebitToken" /\ calls[w][i].ok}) <= 1
            /\ \A i \in Fatal(w) :
                   /\ i = Len(calls[w])
                   /\ pc[w] = "return"
                   /\ err[w] # Nil

\* One invocation ended at a failed Summarize with its single debit spent,
\* while an AcceptRequest ended at its failed update.
C32_Witness ==
    \E w \in Workers, v \in Workers :
        /\ op[w] = "CreateRequest" /\ pc[w] = "return"
        /\ Names(calls[w]) = <<"DebitToken", "Summarize">>
        /\ calls[w][1].ok /\ ~calls[w][2].ok
        /\ op[v] = "AcceptRequest" /\ pc[v] = "return"
        /\ Len(calls[v]) = 1 /\ ~calls[v][1].ok

(* ----------------------------- fetch by id ----------------------------- *)

ErrNotFound == Errorf("request not found")

\* The caller's GetRequestByID ran in this step.
FetchStep(w) == Idle(w) /\ op'[w] = "repo.GetRequestByID"

\* C33: GetRequestByID never changes the store; for an id that is not in the
\* store it returns no record and, unless the query itself failed, the error
\* "request not found", which it returns for no id that is in the store.
C33_NotFound ==
    [][\A w \in Workers :
         FetchStep(w) =>
             LET id == args'[w].requestID IN
             /\ store' = store
             /\ id \notin DOMAIN store =>
                   /\ req'[w] = Nil
                   /\ err'[w] # Nil
                   /\ ~Infra(err'[w]) => err'[w] = ErrNotFound
             /\ err'[w] = ErrNotFound => id \notin DOMAIN store
             /\ err'[w] = Nil => req'[w] = <<store[id]>>]_vars

\* A fetch of an id the store does not hold, made while the store holds
\* another request, was answered "request not found".
C33_Witness ==
    \E w \in Workers :
        /\ Returned(w, "repo.GetRequestByID")
        /\ store # <<>>
        /\ args[w].requestID \notin DOMAIN store
        /\ req[w] = Nil /\ err[w] = ErrNotFound

(* ------------------------ pending queue elements ----------------------- *)

\* C34: every element the pending-queue read returns is the stored request:
\* its status is "pending" and its other fields, the summary included, equal
\* the values persisted for that request.
C34_ElementsAreStoredRequests ==
    [][\A w \in Workers : ReadStep(w) =>
          \A i \in 1..Len(req'[w]) :
              LET r == req'[w][i] IN
              /\ r.RequestID \in DOMAIN store
              /\ r.Status = "pending"
              /\ r = store[r.RequestID]
      ]_vars

(* ------------------------ accepts of one request ------------------------ *)

ErrAlreadyAccepted == Errorf("request not found or was already accepted")

\* The caller's repo.AcceptRequest ran in this step.
RepoAcceptStep(w) == Idle(w) /\ op'[w] = "repo.AcceptRequest"

\* C35: an accept succeeds only on a pending request and leaves it not
\* pending for good, so of all accepts of one request at most one succeeds;
\* every accept of a request that was accepted before fails with "request not
\* found or was already accepted" (or the database's own error) and changes
\* nothing; the expert id and acceptance time of an accepted request are never
\* changed by any later step, accept or resolve.
C35_OneAcceptWins ==
    /\ [][\A w \in Workers : RepoAcceptStep(w) =>
            LET id == args'[w].requestID IN
            /\ err'[w] = Nil =>
                  /\ IsStatus(store, id, "pending")
                  /\ ~IsStatus(store', id, "pending")
                  /\ store'[id].ExpertID = SomeUUID(args'[w].expertID)
                  /\ store'[id].AcceptedAt = SomeTime(now')
            /\ ~IsStatus(store, id, "pending") =>
                  /\ err'[w] # Nil
                  /\ ~Infra(err'[w]) => err'[w] = ErrAlreadyAccepted
                  /\ store' = store]_vars
    /\ [][\A id \in DOMAIN store :
            store[id].Status # "pending" =>
                /\ id \in DOMAIN store'
                /\ store'[id].Status # "pending"
                /\ store'[id].ExpertID = store[id].ExpertID
                /\ store'[id].AcceptedAt = store[id].AcceptedAt]_vars

\* An accept by another expert, made later than the winning accept and after
\* the request was resolved, was refused; the winner's id and time stand.
C35_Witness ==
    \E w \in Workers : \E id \in DOMAIN store :
        /\ Returned(w, "repo.AcceptRequest")
        /\ args[w].requestID = id
        /\ err[w] = ErrAlreadyAccepted
        /\ store[id].Status = "resolved"
        /\ store[id].ExpertID.Valid
        /\ store[id].ExpertID # SomeUUID(args[w].expertID)
        /\ store[id].AcceptedAt.Valid
        /\ store[id].AcceptedAt.Time < store[id].ResolvedAt.Time

(* ------------------------ resolves of one request ----------------------- *)

ErrNotActive == Errorf("request not found or was not active")

\* C36: of two ResolveRequest calls on the same active request, whichever
\* update the store runs first succeeds and stamps the resolution time, and
\* the other finds the request resolved and returns "request not found or was
\* not active" without writing: a resolve of an active request succeeds unless
\* the database fails, a resolve of a request that is not active fails with
\* that error and changes nothing, two calls in flight on one request never
\* both succeed, and the resolution time is set by a successful resolve only
\* and never changed afterwards.
C36_OneResolveWins ==
    /\ [][\A w \in Workers : ResolveStep(w) =>
            LET id == args'[w].requestID IN
            /\ IsStatus(store, id, "active") =>
                  /\ err'[w] = Nil \/ Infra(err'[w])
                  /\ err'[w] = Nil =>
                        /\ store'[id].Status = "resolved"
                        /\ store'[id].ResolvedAt = SomeTime(now')
                  /\ err'[w] # Nil => store' = store
            /\ ~IsStatus(store, id, "active") =>
                  /\ err'[w] # Nil
                  /\ ~Infra(err'[w]) => err'[w] = ErrNotActive
                  /\ store' = store]_vars
    /\ [][\A id \in DOMAIN store :
            /\ store'[id].ResolvedAt # store[id].ResolvedAt =>
                  /\ ~store[id].ResolvedAt.Valid
                  /\ \E w \in Workers :
                        /\ ResolveStep(w) /\ err'[w] = Nil
                        /\ args'[w].requestID = id
            /\ store[id].Status = "resolved" => store'[id].Status = "resolved"]_vars
    /\ [](\A w, v \in Workers :
            (/\ w # v
             /\ Returned(w, "ResolveRequest") /\ Returned(v, "ResolveRequest")
             /\ args[w].requestID = args[v].requestID)
                => ~(err[w] = Nil /\ err[v] = Nil))

\* Two resolves of one request are in flight at once, by different experts and
\* at different times: one succeeded, the other was refused, and the time
\* stored is the time of the one that succeeded, which was the earlier.
C36_Witness ==
    \E w, v \in Workers : \E id \in DOMAIN store :
        /\ w # v
        /\ Returned(w, "ResolveRequest") /\ Returned(v, "ResolveRequest")
        /\ args[w].requestID = id /\ args[v].requestID = id
        /\ args[w].expertID # args[v].expertID
        /\ err[w] = Nil /\ err[v] = ErrNotActive
        /\ store[id].Status = "resolved"
        /\ store[id].ResolvedAt.Valid
        /\ store[id].ResolvedAt.Time < now

(* ---------------------- accepts that failed half-way --------------------- *)

\* w's AcceptRequest on id has returned an error after its conditional update
\* succeeded: the re-fetch or AddExpert failed.
HalfAccepted(w, id) ==
    /\ op[w] = "AcceptRequest" /\ pc[w] = "return"
    /\ args[w].requestID = id
    /\ Len(calls[w]) >= 2
    /\ calls[w][1].ok /\ ~Last(calls[w]).ok

C38_AddedExpertWon ==
    [][\A v \in Workers : AcceptStep(v, "AddExpert") =>
          LET c == Last(calls'[v])
              id == args[v].requestID IN
          /\ c.name = "AddExpert"
          /\ id \in DOMAIN store
          /\ store[id].TwilioConversationSID = c.sid
          /\ store[id].ExpertID = SomeUUID(c.expertID)
          /\ store[id].Status \in {"active", "resolved"}
          /\ store[id].AcceptedAt.Valid
          /\ c.expertID = args[v].expertID]_vars

\* Two experts called AcceptRequest on one pending request: the one whose
\* update won was added to the chat, the other was refused and added nowhere.
C38_Witness ==
    \E w, v \in Workers : \E id \in DOMAIN store :
        /\ Racing(w, v, id)
        /\ Len(calls[v]) = 3 /\ calls[v][3].name = "AddExpert" /\ calls[v][3].ok
        /\ calls[v][3].expertID = store[id].ExpertID.UUID
        /\ calls[v][3].sid = store[id].TwilioConversationSID
        /\ Names(calls[w]) = <<"AcceptRequest">>
        /\ err[w] = ErrConflict

(* ------------------------ tokens and request records -------------------- *)

ErrPaymentFailed == "token debit failed"

\* The request records of user u.
RecordsOf(u) == {id \in DOMAIN store : store[id].UserID = u}

\* w's CreateRequest for u has passed the debit step and has not yet created
\* its record.
PaidInFlight(w, u) ==
    /\ op[w] = "CreateRequest" /\ args[w].userID = u
    /\ calls[w] # <<>> /\ calls[w][1].ok
    /\ \A i \in 1..Len(calls[w]) :
          ~(calls[w][i].name = "CreateRequest" /\ calls[w][i].ok)

\* C39: with no credits applied, a user who starts with N tokens never has a
\* negative balance, and the user's records plus the user's calls that have
\* passed the debit step and not yet created a record never number more than
\* the tokens spent, N minus the balance; the balance changes only when a
\* CreateRequest passes the debit step, by exactly one token, so at most N
\* calls pass it; a call that reaches the debit step with no token left (or
\* for a user with no account) fails there with the payment-failed error,
\* "token debit failed: insufficient funds" when the billing service answered
\* the debit, and creates nothing.
C39_AtMostNPaid ==
    /\ [](\A u \in Users :
            LET b == IF u \in DOMAIN balance THEN balance[u] ELSE 0
                n == IF u \in DOMAIN balance THEN InitTokens ELSE 0 IN
            /\ b >= 0
            /\ Cardinality(RecordsOf(u))
                 + Cardinality({w \in Workers : PaidInFlight(w, u)}) <= n - b
            /\ Cardinality(RecordsOf(u)) <= n)
    /\ [][\A w \in Workers : CreateStep(w, "DebitToken") =>
            LET u == args[w].userID
                left == IF u \in DOMAIN balance THEN balance[u] ELSE 0 IN
            /\ Last(calls'[w]).ok =>
                  /\ left >= 1
                  /\ balance' = [balance EXCEPT ![u] = left - 1]
            /\ ~Last(calls'[w]).ok =>
                  /\ balance' = balance
                  /\ pc'[w] = "return"
                  /\ Head(err'[w]) = ErrPaymentFailed
            /\ left = 0 =>
                  /\ ~Last(calls'[w]).ok
                  /\ Last(calls'[w]).status = 409 =>
                        err'[w] = Wrap(ErrPaymentFailed,
                                       Errorf("insufficient funds"))
            /\ store' = store]_vars
    /\ [][balance' # balance =>
            \E w \in Workers :
                CreateStep(w, "DebitToken") /\ Last(calls'[w]).ok]_vars

\* Two CreateRequest calls for the user ran together: one took the last token
\* and is still on its way, the other was refused payment; no token is left.
C39_Witness ==
    \E w, v \in Workers :
        /\ w # v
        /\ PaidInFlight(w, "u1") /\ pc[w] # "return"
        /\ Returned(v, "CreateRequest") /\ args[v].userID = "u1"
        /\ Names(calls[v]) = <<"DebitToken">>
        /\ calls[v][1].status = 409
        /\ err[v] = Wrap(ErrPaymentFailed, Errorf("insufficient funds"))
        /\ balance["u1"] = 0
        /\ Cardinality(RecordsOf("u1")) = InitTokens - 1

====
